---- MODULE Spec2Model ----
(***************************************************************************)
(* The three one-shot scripts of the repository, each modelled as a        *)
(* sequential process:                                                     *)
(*   scripts/convert_to_onnx.py     ("convert")                            *)
(*   scripts/extract_embeddings.py  ("extract")                            *)
(*   scripts/embed.py               ("embed")                              *)
(* One behaviour is one run of one script.  The run's inputs (argv, the    *)
(* file system, the model the loader returns, which library call raises)   *)
(* are chosen nondeterministically.                                        *)
(***************************************************************************)
EXTENDS Integers, Sequences, FiniteSets

\* ---------------------------------------------------------------- bounds
MaxArgc == 4
MaxModules == 2
MaxRows == 2
MaxDim == 2
MaxVocab == 3

\* ------------------------------------------------------------- constants
Scripts == {"convert", "extract", "embed"}
\* element types a weight tensor may have, with numpy's item sizes
DTypes == {"float16", "float32", "float64"}
ItemSize(dt) == CASE dt = "float16" -> 2 [] dt = "float32" -> 4 [] dt = "float64" -> 8

\* sys.argv lengths the scripts accept
ConvertArgc == 3
ExtractArgc == 3
EmbedArgc == 2

\* side files copied next to the outputs
tokenizer_files == <<"tokenizer.json", "config.json", "modules.json">>
original_files == <<"tokenizer.json", "config.json">>

NoArray == [rows |-> 0, cols |-> 0, dtype |-> "none"]
NoModel == [nModules |-> 0, rows |-> 0, cols |-> 0, dtype |-> "none",
            vocab |-> 0, normAttr |-> FALSE, loaded |-> FALSE]
NoMeta == [vocab_size |-> -1, embedding_dim |-> -1]
NoConfig == [vocab_size |-> -1, embedding_dim |-> -1, normalize |-> FALSE]
NoWrapper == [static_embedding |-> "none", normalize |-> "none"]

Range(s) == {s[i] : i \in DOMAIN s}

VARIABLES
  script,       \* which script this run executes
  pc,           \* position of the process
  argc,         \* len(sys.argv)
  inputExists,  \* os.path.exists of the model path (argv[1], or MODEL_PATH for embed)
  srcFiles,     \* side files present in the model directory
  outDir,       \* whether the output directory exists
  dirMade,      \* this run's os.makedirs call returned
  preFiles,     \* files that were in the output directory before the run
  files,        \* files in the output directory now
  written,      \* files this run wrote, in order
  stdout,       \* lines printed to standard output, in order
  exitCode,     \* -1 while running, then the exit status
  raised,       \* phase in which an exception escaped a library call, or "none"
  handler,      \* who caught it: "none", "script" (an except block), "interpreter"
  model,        \* the loaded SentenceTransformer
  npy,          \* content of embedding_weights.npy
  vocabJson,    \* keys of vocab.json
  config,       \* content of model_config.json
  binLen,       \* byte length of embeddings.bin (-1: absent)
  meta,         \* content of embeddings_metadata.json
  wrapper,      \* the Model2VecWrapper built for export
  graph,        \* stages of the exported computation
  testResult,   \* what the post-export smoke test returned
  success,      \* return value of convert_model_to_onnx / extract_model_weights
  result,       \* embed: key of generate_embedding's result
  argExamined,  \* embed: sys.argv was looked at
  encodeCalls   \* embed: number of model.encode calls

vars == <<script, pc, argc, inputExists, srcFiles, outDir, dirMade, preFiles, files, written,
          stdout, exitCode, raised, handler, model, npy, vocabJson, config, binLen,
          meta, wrapper, graph, testResult, success, result, argExamined, encodeCalls>>

fsVars == <<outDir, dirMade, files, written>>
extractVars == <<npy, vocabJson, config, binLen, meta>>
convertVars == <<wrapper, graph, testResult>>
embedVars == <<result, argExamined, encodeCalls>>
inputVars == <<script, argc, inputExists, srcFiles, preFiles>>

\* a printed line: text (kind "text") or one JSON object (kind "json") with one key
Text(what, path) == [kind |-> "text", key |-> "", what |-> what, path |-> path]
Json(key, what, path) == [kind |-> "json", key |-> key, what |-> what, path |-> path]

Init ==
  /\ script \in Scripts
  /\ argc \in 1..MaxArgc
  /\ inputExists \in BOOLEAN
  /\ srcFiles \in SUBSET Range(tokenizer_files)
  /\ outDir \in BOOLEAN
  /\ preFiles \in SUBSET {"model.onnx", "tokenizer.json"}
  /\ (~outDir => preFiles = {})
  /\ (script = "embed" => srcFiles = {} /\ ~outDir)
  /\ dirMade = FALSE
  /\ files = preFiles
  /\ written = <<>>
  /\ stdout = <<>>
  /\ exitCode = -1
  /\ raised = "none"
  /\ handler = "none"
  /\ model = NoModel
  /\ npy = NoArray
  /\ vocabJson = {}
  /\ config = NoConfig
  /\ binLen = -1
  /\ meta = NoMeta
  /\ wrapper = NoWrapper
  /\ graph = <<>>
  /\ testResult = "none"
  /\ success = "none"
  /\ result = "none"
  /\ argExamined = FALSE
  /\ encodeCalls = 0
  /\ pc = IF script = "embed" THEN "e_load" ELSE "main"

\* sys.exit(code) from the script's own code
Exit(code) == /\ exitCode' = code
              /\ pc' = "halt"

\* an exception nobody catches: the interpreter prints the traceback to stderr
\* and the process ends with status 1
Uncaught(phase) ==
  /\ raised' = phase
  /\ handler' = "interpreter"
  /\ exitCode' = 1
  /\ pc' = "halt"

\* a write of `name` that completed
Wrote(name) == /\ files' = files \cup {name}
               /\ written' = Append(written, name)

\* a write of `name` that raised: the file may have been created, half written
Partial(name) == /\ \E left \in BOOLEAN : files' = IF left THEN files \cup {name} ELSE files
                 /\ UNCHANGED written

Say(line) == stdout' = Append(stdout, line)
Say2(l1, l2) == stdout' = stdout \o <<l1, l2>>

\* tokenizer.get_vocab(): a dict, one key per token
GetVocab(m) == 1..m.vocab

\* the models SentenceTransformer(path) can return
Models == [nModules : 0..MaxModules, rows : 1..MaxRows, cols : 1..MaxDim,
           dtype : DTypes, vocab : 0..MaxVocab, normAttr : BOOLEAN, loaded : {TRUE}]

\* ------------------------------------------------ extract_embeddings.py

\* main: `if not os.path.exists(input_path)`
NoPathCheck(exists) == FALSE
PathMissing(exists) == ~exists

\* main: `if success:` guards create_go_embedding_data
AlwaysProceeds(s) == TRUE
Proceeds(s) == s = "true"

\* numpy: arr.astype(dt) re-types every element; tobytes() is rows*cols*itemsize long
KeepType(arr, dt) == arr
AsType(arr, dt) == [arr EXCEPT !.dtype = dt]
ToBytesLen(arr) == arr.rows * arr.cols * ItemSize(arr.dtype)

\* the except block of extract_model_weights: print, traceback, return False
ExtractCaught ==
  /\ raised' = "extract"
  /\ handler' = "script"
  /\ success' = "false"
  /\ Say(Text("Error during extraction", FALSE))
  /\ pc' = "x_result"

extract_main ==
  /\ pc = "main" /\ script = "extract"
  /\ IF argc # ExtractArgc
       THEN Say(Text("Usage", FALSE)) /\ Exit(1)
       ELSE IF PathMissing(inputExists)
         THEN Say(Text("Error: Input path does not exist", TRUE)) /\ Exit(1)
         ELSE Say(Text("Model2vec Embedding Extractor", FALSE)) /\ pc' = "x_load"
                /\ UNCHANGED exitCode
  /\ UNCHANGED <<inputVars, fsVars, raised, handler, model, extractVars, convertVars,
                 success, embedVars>>

\* extract_model_weights, before its try: SentenceTransformer(model_path)
extract_load ==
  /\ pc = "x_load"
  /\ \E raises \in BOOLEAN, m \in Models :
       IF raises
         THEN Uncaught("load") /\ UNCHANGED model
         ELSE model' = m /\ pc' = "x_mkdir" /\ UNCHANGED <<raised, handler, exitCode>>
  /\ Say(Text("Loading model from", TRUE))
  /\ UNCHANGED <<inputVars, fsVars, extractVars, convertVars, success, embedVars>>

\* extract_model_weights, before its try: os.makedirs(output_path, exist_ok=True)
extract_mkdir ==
  /\ pc = "x_mkdir"
  /\ \E raises \in BOOLEAN :
       IF raises
         THEN Uncaught("mkdir") /\ UNCHANGED <<outDir, dirMade>>
         ELSE /\ outDir' = TRUE /\ dirMade' = TRUE /\ pc' = "x_weights"
              /\ UNCHANGED <<raised, handler, exitCode>>
  /\ Say(Text("Extracting model components", FALSE))
  /\ UNCHANGED <<inputVars, files, written, model, extractVars, convertVars, success,
                 embedVars>>

\* model[0].embedding.weight -> numpy; np.save(embedding_weights.npy)
extract_weights ==
  /\ pc = "x_weights"
  /\ \E raises \in BOOLEAN :
       IF raises \/ model.nModules = 0
         THEN ExtractCaught /\ Partial("embedding_weights.npy") /\ UNCHANGED npy
         ELSE /\ npy' = [rows |-> model.rows, cols |-> model.cols, dtype |-> model.dtype]
              /\ Wrote("embedding_weights.npy")
              /\ Say2(Text("Embedding weights shape", FALSE),
                      Text("Saved embedding weights", FALSE))
              /\ pc' = "x_vocab"
              /\ UNCHANGED <<raised, handler, success>>
  /\ UNCHANGED <<inputVars, outDir, dirMade, exitCode, model, vocabJson, config, binLen, meta,
                 convertVars, embedVars>>

\* tokenizer.get_vocab(); json.dump(vocab) to vocab.json
extract_vocab ==
  /\ pc = "x_vocab"
  /\ \E raises \in BOOLEAN :
       IF raises
         THEN ExtractCaught /\ Partial("vocab.json") /\ UNCHANGED vocabJson
         ELSE /\ vocabJson' = GetVocab(model)
              /\ Wrote("vocab.json")
              /\ Say(Text("Saved vocabulary", FALSE))
              /\ pc' = "x_config"
              /\ UNCHANGED <<raised, handler, success>>
  /\ UNCHANGED <<inputVars, outDir, dirMade, exitCode, model, npy, config, binLen, meta,
                 convertVars, embedVars>>

\* config_data = {vocab_size: len(vocab), embedding_dim: shape[1], ...}
extract_config ==
  /\ pc = "x_config"
  /\ \E raises \in BOOLEAN :
       IF raises
         THEN ExtractCaught /\ Partial("model_config.json") /\ UNCHANGED config
         ELSE /\ config' = [vocab_size |-> Cardinality(GetVocab(model)),
                            embedding_dim |-> npy.cols,
                            normalize |-> (model.nModules > 1 /\ model.normAttr)]
              /\ Wrote("model_config.json")
              /\ Say(Text("Saved model config", FALSE))
              /\ pc' = "x_copy"
              /\ UNCHANGED <<raised, handler, success>>
  /\ UNCHANGED <<inputVars, outDir, dirMade, exitCode, model, npy, vocabJson, binLen, meta,
                 convertVars, embedVars>>

\* for file in original_files: if exists(src): shutil.copy2(src, dst)
extract_copy ==
  /\ pc = "x_copy"
  /\ \E raises \in BOOLEAN :
       IF raises /\ srcFiles \cap Range(original_files) # {}
         THEN ExtractCaught /\ UNCHANGED <<files, written>>
         ELSE /\ files' = files \cup (srcFiles \cap Range(original_files))
              /\ written' = written \o SelectSeq(original_files, LAMBDA f : f \in srcFiles)
              /\ Say(Text("Testing extraction", FALSE))
              /\ pc' = "x_test"
              /\ UNCHANGED <<raised, handler, success>>
  /\ UNCHANGED <<inputVars, outDir, dirMade, exitCode, model, extractVars, convertVars, embedVars>>

\* test_extraction: reloads the three files, encodes a sentence, looks up
\* weights[tokens[:5]] (IndexError when a token id is not a row); then return True
extract_test ==
  /\ pc = "x_test"
  /\ \E raises \in BOOLEAN, tok \in -1..(model.vocab - 1) :
       IF raises \/ tok >= npy.rows
         THEN ExtractCaught
         ELSE /\ success' = "true"
              /\ Say(Text("Extraction test completed", FALSE))
              /\ pc' = "x_result"
              /\ UNCHANGED <<raised, handler>>
  /\ UNCHANGED <<inputVars, fsVars, exitCode, model, extractVars, convertVars, embedVars>>

\* main: success = extract_model_weights(...); if success: ... else: sys.exit(1)
extract_result ==
  /\ pc = "x_result"
  /\ IF Proceeds(success)
       THEN Say(Text("Creating Go-friendly data files", FALSE)) /\ pc' = "x_go_bin"
              /\ UNCHANGED exitCode
       ELSE Say(Text("Extraction failed", FALSE)) /\ Exit(1)
  /\ UNCHANGED <<inputVars, fsVars, raised, handler, model, extractVars, convertVars,
                 success, embedVars>>

\* create_go_embedding_data: np.load, astype(float32), write embeddings.bin
create_go_embedding_data_bin ==
  /\ pc = "x_go_bin"
  /\ \E raises \in BOOLEAN :
       IF raises
         THEN Uncaught("go_data") /\ Partial("embeddings.bin") /\ UNCHANGED <<binLen, stdout>>
         ELSE /\ binLen' = ToBytesLen(AsType(npy, "float32"))
              /\ Wrote("embeddings.bin")
              /\ Say(Text("Saved binary embeddings", FALSE))
              /\ pc' = "x_go_meta"
              /\ UNCHANGED <<raised, handler, exitCode>>
  /\ UNCHANGED <<inputVars, outDir, dirMade, model, npy, vocabJson, config, meta, convertVars,
                 success, embedVars>>

\* create_go_embedding_data: metadata = {vocab_size: shape[0], embedding_dim: shape[1]};
\* back in main: print success, fall off the end (status 0)
create_go_embedding_data_meta ==
  /\ pc = "x_go_meta"
  /\ \E raises \in BOOLEAN :
       IF raises
         THEN Uncaught("go_data") /\ Partial("embeddings_metadata.json")
                /\ UNCHANGED <<meta, stdout>>
         ELSE /\ meta' = [vocab_size |-> npy.rows, embedding_dim |-> npy.cols]
              /\ Wrote("embeddings_metadata.json")
              /\ Say2(Text("Saved metadata", FALSE),
                      Text("Extraction completed successfully", FALSE))
              /\ Exit(0)
              /\ UNCHANGED <<raised, handler>>
  /\ UNCHANGED <<inputVars, outDir, dirMade, model, npy, vocabJson, config, binLen, convertVars,
                 success, embedVars>>

ExtractNext ==
  \/ extract_main
  \/ extract_load
  \/ extract_mkdir
  \/ extract_weights
  \/ extract_vocab
  \/ extract_config
  \/ extract_copy
  \/ extract_test
  \/ extract_result
  \/ create_go_embedding_data_bin
  \/ create_go_embedding_data_meta

\* -------------------------------------------------- convert_to_onnx.py

\* the converter reads only the module list of the model it loads
ConvertModels == {m \in Models : m.rows = 1 /\ m.cols = 1 /\ m.dtype = "float32"
                                 /\ m.vocab = 0 /\ ~m.normAttr}

\* `normalize_module = None; if len(model) > 1: normalize_module = model[1]`
NormalizeModuleOffByOne(n) == IF n > 0 THEN "model[1]" ELSE "none"
NormalizeModule(n) == IF n > 1 THEN "model[1]" ELSE "none"

\* Model2VecWrapper.forward: the stages the traced graph holds
Forward(w) == IF w.normalize # "none"
                THEN <<w.static_embedding, w.normalize>>
                ELSE <<w.static_embedding>>

\* the except block of convert_model_to_onnx prints and returns False; it removes nothing
RemovedOnFailure(fs) == {}
KeptOnFailure(fs) == fs

\* convert_model_to_onnx calls test_onnx_model(...) as a statement, then `return True`
ReturnTestResult(t) == t
ConvertReturn(t) == "true"

\* the except block of convert_model_to_onnx: print, traceback, return False
ConvertCaught(phase) ==
  /\ raised' = phase
  /\ handler' = "script"
  /\ success' = "false"
  /\ Say(Text("Error during ONNX export", FALSE))
  /\ pc' = "c_result"

convert_main ==
  /\ pc = "main" /\ script = "convert"
  /\ IF argc # ConvertArgc
       THEN Say(Text("Usage", FALSE)) /\ Exit(1)
       ELSE IF PathMissing(inputExists)
         THEN Say(Text("Error: Input path does not exist", TRUE)) /\ Exit(1)
         ELSE Say(Text("Model2vec to ONNX Converter", FALSE)) /\ pc' = "c_load"
                /\ UNCHANGED exitCode
  /\ UNCHANGED <<inputVars, fsVars, raised, handler, model, extractVars, convertVars,
                 success, embedVars>>

\* convert_model_to_onnx, before its try: SentenceTransformer(model_path); model.eval()
convert_load ==
  /\ pc = "c_load"
  /\ \E raises \in BOOLEAN, m \in ConvertModels :
       IF raises
         THEN Uncaught("load") /\ UNCHANGED model
         ELSE model' = m /\ pc' = "c_mkdir" /\ UNCHANGED <<raised, handler, exitCode>>
  /\ Say(Text("Loading model from", TRUE))
  /\ UNCHANGED <<inputVars, fsVars, extractVars, convertVars, success, embedVars>>

\* convert_model_to_onnx, before its try: os.makedirs(output_path, exist_ok=True)
convert_mkdir ==
  /\ pc = "c_mkdir"
  /\ \E raises \in BOOLEAN :
       IF raises
         THEN Uncaught("mkdir") /\ UNCHANGED <<outDir, dirMade>>
         ELSE /\ outDir' = TRUE /\ dirMade' = TRUE /\ pc' = "c_wrap"
              /\ UNCHANGED <<raised, handler, exitCode>>
  /\ Say(Text("Converting to ONNX", FALSE))
  /\ UNCHANGED <<inputVars, files, written, model, extractVars, convertVars, success,
                 embedVars>>

\* static_embedding = model[0] (IndexError on an empty model); build the wrapper
convert_wrap ==
  /\ pc = "c_wrap"
  /\ \E raises \in BOOLEAN :
       IF raises \/ model.nModules = 0
         THEN ConvertCaught("wrap") /\ UNCHANGED wrapper
         ELSE /\ wrapper' = [static_embedding |-> "model[0]",
                             normalize |-> NormalizeModule(model.nModules)]
              /\ Say(Text("Model modules", FALSE))
              /\ pc' = "c_export"
              /\ UNCHANGED <<raised, handler, success>>
  /\ UNCHANGED <<inputVars, fsVars, exitCode, model, extractVars, graph, testResult,
                 embedVars>>

\* torch.onnx.export(wrapper, dummy_input, onnx_path, ...)
convert_export ==
  /\ pc = "c_export"
  /\ \E raises \in BOOLEAN :
       IF raises
         THEN /\ ConvertCaught("export")
              /\ \E left \in BOOLEAN :
                   files' = KeptOnFailure(IF left THEN files \cup {"model.onnx"} ELSE files)
              /\ UNCHANGED <<written, graph>>
         ELSE /\ graph' = Forward(wrapper)
              /\ Wrote("model.onnx")
              /\ Say(Text("ONNX model saved", TRUE))
              /\ pc' = "c_copy"
              /\ UNCHANGED <<raised, handler, success>>
  /\ UNCHANGED <<inputVars, outDir, dirMade, exitCode, model, extractVars, wrapper, testResult,
                 embedVars>>

\* for file in tokenizer_files: if exists(src): shutil.copy2(src, dst)
convert_copy ==
  /\ pc = "c_copy"
  /\ \E raises \in BOOLEAN :
       IF raises /\ srcFiles # {}
         THEN ConvertCaught("copy") /\ files' = KeptOnFailure(files) /\ UNCHANGED written
         ELSE /\ files' = files \cup srcFiles
              /\ written' = written \o SelectSeq(tokenizer_files, LAMBDA f : f \in srcFiles)
              /\ Say(Text("Testing ONNX model", FALSE))
              /\ pc' = "c_test"
              /\ UNCHANGED <<raised, handler, success>>
  /\ UNCHANGED <<inputVars, outDir, dirMade, exitCode, model, extractVars, convertVars, embedVars>>

\* test_onnx_model: True (checked, or onnxruntime missing) or False (any exception,
\* caught inside); convert_model_to_onnx then returns
test_onnx_model ==
  /\ pc = "c_test"
  /\ \E t \in {"true", "false"} :
       /\ testResult' = t
       /\ success' = ConvertReturn(t)
       /\ Say(Text(IF t = "true" THEN "ONNX test passed or skipped"
                                 ELSE "Error testing ONNX model", FALSE))
  /\ pc' = "c_result"
  /\ UNCHANGED <<inputVars, fsVars, exitCode, raised, handler, model, extractVars,
                 wrapper, graph, embedVars>>

\* main: success = convert_model_to_onnx(...); if success: ... else: sys.exit(1)
convert_result ==
  /\ pc = "c_result"
  /\ IF success = "true"
       THEN Say(Text("Conversion completed successfully", TRUE)) /\ Exit(0)
       ELSE Say(Text("Conversion failed", FALSE)) /\ Exit(1)
  /\ UNCHANGED <<inputVars, fsVars, raised, handler, model, extractVars, convertVars,
                 success, embedVars>>

ConvertNext ==
  \/ convert_main
  \/ convert_load
  \/ convert_mkdir
  \/ convert_wrap
  \/ convert_export
  \/ convert_copy
  \/ test_onnx_model
  \/ convert_result

\* ------------------------------------------------------------ embed.py

\* the model embed.py holds once SentenceTransformer(MODEL_PATH) returned
EmbedModel == [NoModel EXCEPT !.loaded = TRUE]

\* the load handler ends with sys.exit(1)
FallsThrough == "e_main"
AfterLoadFailure == "halt"

\* module level: try: model = SentenceTransformer(MODEL_PATH)
\* except: print(json.dumps({"error": "Failed to load model: " + str(e)})); sys.exit(1)
\* The text of e is the loader's: it may or may not name the path.  A path that
\* does not exist cannot be loaded; one that exists may still fail to load.
embed_load ==
  /\ pc = "e_load" /\ script = "embed"
  /\ \E raises \in BOOLEAN, namesPath \in BOOLEAN :
       IF raises \/ ~inputExists
         THEN /\ raised' = "load"
              /\ handler' = "script"
              /\ Say(Json("error", "Failed to load model", namesPath))
              /\ pc' = AfterLoadFailure
              /\ exitCode' = IF AfterLoadFailure = "halt" THEN 1 ELSE exitCode
              /\ UNCHANGED model
         ELSE /\ model' = EmbedModel
              /\ pc' = "e_main"
              /\ UNCHANGED <<raised, handler, stdout, exitCode>>
  /\ UNCHANGED <<inputVars, fsVars, extractVars, convertVars, success, embedVars>>

\* __main__: if len(sys.argv) != 2: print usage error, sys.exit(1); text = sys.argv[1]
embed_main ==
  /\ pc = "e_main"
  /\ argExamined' = TRUE
  /\ IF argc # EmbedArgc
       THEN Say(Json("error", "Usage", FALSE)) /\ Exit(1)
       ELSE pc' = "e_generate" /\ UNCHANGED <<stdout, exitCode>>
  /\ UNCHANGED <<inputVars, fsVars, raised, handler, model, extractVars, convertVars,
                 success, result, encodeCalls>>

\* generate_embedding: model.encode(text).tolist(), any exception turned into
\* {"error": ...} (a NameError when no model was bound)
generate_embedding ==
  /\ pc = "e_generate"
  /\ encodeCalls' = encodeCalls + 1
  /\ \E raises \in BOOLEAN :
       IF raises \/ ~model.loaded
         THEN result' = "error" /\ raised' = "generate" /\ handler' = "script"
         ELSE result' = "embedding" /\ UNCHANGED <<raised, handler>>
  /\ pc' = "e_print"
  /\ UNCHANGED <<inputVars, fsVars, stdout, exitCode, model, extractVars, convertVars,
                 success, argExamined>>

\* print(json.dumps(result)); the script ends (status 0, or the status already set)
embed_print ==
  /\ pc = "e_print"
  /\ Say(Json(result, IF result = "error" THEN "Failed to generate embedding"
                                          ELSE "vector", FALSE))
  /\ exitCode' = IF exitCode = -1 THEN 0 ELSE exitCode
  /\ pc' = "halt"
  /\ UNCHANGED <<inputVars, fsVars, raised, handler, model, extractVars, convertVars,
                 success, embedVars>>

EmbedNext ==
  \/ embed_load
  \/ embed_main
  \/ generate_embedding
  \/ embed_print

Next == ExtractNext \/ ConvertNext \/ EmbedNext


Spec == Init /\ [][Next]_vars

\* ------------------------------------------------------------ properties

Halted == pc = "halt"
Printed(what) == \E i \in DOMAIN stdout : stdout[i].what = what
\* an error line that carries the path
PathErrorPrinted == \E i \in DOMAIN stdout :
                      /\ stdout[i].what \in {"Error: Input path does not exist",
                                             "Failed to load model"}
                      /\ stdout[i].path
Artifacts == {"embedding_weights.npy", "vocab.json", "model_config.json",
              "embeddings.bin", "embeddings_metadata.json"}
GoFiles == {"embeddings.bin", "embeddings_metadata.json"}

\* C1: a run of extract_embeddings.py that exits 0 has written metadata whose
\* vocab_size * embedding_dim * 4 is the byte length of embeddings.bin, whatever the
\* shape and element type of the weight matrix.
C1_MetadataMatchesBinary ==
  (script = "extract" /\ exitCode = 0) =>
     meta.vocab_size * meta.embedding_dim * 4 = binLen

\* a float64 matrix of 2 x 2 was extracted: 16 bytes, not 32
C1_Witness ==
  /\ script = "extract" /\ exitCode = 0
  /\ npy.dtype = "float64" /\ npy.rows = 2 /\ npy.cols = 2
  /\ binLen = 16

\* C2: after a successful extraction the number of keys of vocab.json, which is the
\* vocab_size of model_config.json, equals the vocab_size of embeddings_metadata.json
\* (the number of rows of the matrix).
C2_VocabMatchesRows ==
  (script = "extract" /\ exitCode = 0) =>
     /\ config.vocab_size = Cardinality(vocabJson)
     /\ Cardinality(vocabJson) = meta.vocab_size

\* C3: embed.py exits 1 whenever the model fails to load and whenever generation
\* fails; it exits 0 only when an embedding was produced.
C3_EmbedExitStatus ==
  (script = "embed" /\ Halted) =>
     /\ (raised \in {"load", "generate"} => exitCode = 1)
     /\ (exitCode = 0 => result = "embedding")

\* C4: every exception raised during load, output-directory creation, conversion,
\* extraction or the writing of the Go data files is caught by the script's own
\* handler, its message printed, and the process leaves with status 1 through the
\* script's failure path.
C4_AllExceptionsCaught ==
  (Halted /\ raised \in {"load", "mkdir", "wrap", "export", "copy", "extract", "go_data"}) =>
     /\ handler = "script"
     /\ exitCode = 1
     /\ \/ Printed("Error during extraction") /\ Printed("Extraction failed")
        \/ Printed("Error during ONNX export") /\ Printed("Conversion failed")
        \/ Printed("Failed to load model")

\* C5 as stated: for each script, an invocation whose input path (argv[1]; MODEL_PATH
\* for embed.py) does not exist exits 1 with an error message containing the path,
\* before the output directory is created or a file written.
C5_MissingPathAnyScript ==
  (Halted /\ ~inputExists /\ (script = "embed" \/ argc >= 2)) =>
     /\ exitCode = 1
     /\ PathErrorPrinted
     /\ ~dirMade /\ written = <<>> /\ files = preFiles

\* C5 amended: convert_to_onnx.py and extract_embeddings.py, called with exactly two
\* arguments of which the input path does not exist, exit 1 having printed
\* "Error: Input path does not exist: <path>" and before the output directory is
\* created or a file written; embed.py, whose MODEL_PATH does not exist, exits 1
\* having printed one JSON error line "Failed to load model: ..." (whose text is the
\* loader's and need not contain the path), and writes no file.
C5_MissingPath ==
  (Halted /\ ~inputExists) =>
     /\ (script \in {"convert", "extract"} /\ argc = 3) =>
          /\ exitCode = 1
          /\ stdout = <<Text("Error: Input path does not exist", TRUE)>>
          /\ ~dirMade /\ written = <<>> /\ files = preFiles /\ ~model.loaded
     /\ script = "embed" =>
          /\ exitCode = 1
          /\ Len(stdout) = 1
          /\ stdout[1].kind = "json" /\ stdout[1].key = "error"
          /\ stdout[1].what = "Failed to load model"
          /\ ~dirMade /\ written = <<>> /\ files = preFiles

C5_Witness ==
  /\ script = "extract" /\ argc = 3 /\ ~inputExists /\ Halted
  /\ outDir /\ preFiles # {}

\* C6: a run of extract_embeddings.py that exits 0 wrote embedding_weights.npy,
\* vocab.json, model_config.json, embeddings.bin and embeddings_metadata.json, in that
\* order; a run in which extract_model_weights returned False writes neither
\* embeddings.bin nor embeddings_metadata.json.
C6_ArtifactsInOrder ==
  script = "extract" =>
     /\ exitCode = 0 =>
          SelectSeq(written, LAMBDA f : f \in Artifacts) =
            <<"embedding_weights.npy", "vocab.json", "model_config.json",
              "embeddings.bin", "embeddings_metadata.json">>
     /\ success = "false" =>
          /\ Range(written) \cap GoFiles = {}
          /\ files \cap GoFiles = {}

\* all five were written, with the copied side files between the third and the fourth
C6_Witness ==
  /\ script = "extract" /\ exitCode = 0
  /\ Len(written) = 7
  /\ written[4] = "tokenizer.json" /\ written[7] = "embeddings_metadata.json"

\* C7: the exported computation applies the normalization stage to the output of the
\* embedding lookup exactly when the loaded model has more than one module; a model
\* of one module converts, to the lookup stage alone.
C7_NormalizeIffSecondModule ==
  (script = "convert" /\ wrapper # NoWrapper) =>
     /\ (wrapper.normalize # "none") <=> (model.nModules > 1)
     /\ graph # <<>> =>
          /\ graph[1] = "model[0]"
          /\ (model.nModules > 1) <=> (Len(graph) = 2 /\ graph[2] = "model[1]")
          /\ (model.nModules = 1) => graph = <<"model[0]">>

C7_Witness ==
  /\ script = "convert" /\ model.nModules = 1
  /\ exitCode = 0 /\ graph = <<"model[0]">> /\ "model.onnx" \in Range(written)

\* C8: when the export raises, convert_to_onnx.py prints the failure and exits
\* non-zero, the output directory and what was in it stay, and no side file is copied.
C8_ExportFailureFrame ==
  (script = "convert" /\ raised = "export") =>
     /\ Printed("Error during ONNX export")
     /\ outDir /\ preFiles \subseteq files
     /\ Range(written) \cap Range(tokenizer_files) = {}
     /\ files \ preFiles \subseteq {"model.onnx"}
     /\ Halted => (exitCode = 1 /\ Printed("Conversion failed"))

C8_Witness ==
  /\ script = "convert" /\ raised = "export" /\ Halted
  /\ preFiles = {"model.onnx", "tokenizer.json"} /\ "config.json" \in srcFiles

\* C9: every run of embed.py prints exactly one line, a JSON object whose one key is
\* "embedding" or "error"; when the model fails to load that line is the load error,
\* no argument is examined and no embedding is computed.
C9_OneJsonLine ==
  script = "embed" =>
     /\ Len(stdout) <= 1
     /\ \A i \in DOMAIN stdout :
          stdout[i].kind = "json" /\ stdout[i].key \in {"embedding", "error"}
     /\ Halted => Len(stdout) = 1
     /\ (Halted /\ result # "none") => stdout[1].key = result
     /\ raised = "load" =>
          /\ stdout[1].what = "Failed to load model"
          /\ ~argExamined /\ encodeCalls = 0 /\ result = "none"

C9_Witness ==
  /\ script = "embed" /\ Halted /\ raised = "load" /\ inputExists
  /\ Len(stdout) = 1 /\ argc = 2

\* C10: once the graph is exported and the side files copied, convert_model_to_onnx
\* returns True and the process exits 0 whatever test_onnx_model returned.
C10_SmokeTestIgnored ==
  (script = "convert" /\ testResult # "none") =>
     /\ success = "true"
     /\ Halted => exitCode = 0

C10_Witness ==
  /\ script = "convert" /\ testResult = "false" /\ Halted /\ exitCode = 0

====
